---------------------------- MODULE Spec2Model ----------------------------
(***************************************************************************)
(* LazyFiniteStateMachine (src/lazy_state_machine/lazy_state_machine.py):  *)
(* construction with its two validity checks, step, process and            *)
(* process_and_check, with the exceptions of exceptions.py.                *)
(*                                                                         *)
(* Spec: one constructor call on any combination of arguments, followed,   *)
(* when it returned a machine, by any number of calls of step, process and *)
(* process_and_check.                                                      *)
(***************************************************************************)
EXTENDS Naturals, Sequences, FiniteSets

\* Longest input sequence of two calls that run interleaved (SpecConcurrent).
MaxConcurrentLen == 2

\* Longest input sequence handed to process / process_and_check.
MaxLen == 3

\* Python's None where a state, an exception kind or a line is missing.
None == "None"

\* An optional frozenset argument: omitted (None), or the frozenset given.
Omitted == [given |-> FALSE, elems |-> {}]
Given(S) == [given |-> TRUE, elems |-> S]

\* The values a caller or a rule can produce as a state, and as an input symbol.
States == {"locked", "unlocked", "broken"}
Symbols == {"coin", "push"}

(***************************************************************************)
(* Exceptions.  The seven classes of exceptions.py all derive from         *)
(* Exception.  A transition rule can raise anything: ValueError stands for *)
(* the faults that derive from Exception, KeyboardInterrupt for those that *)
(* derive from BaseException only (KeyboardInterrupt, SystemExit,          *)
(* GeneratorExit), which `except Exception` does not catch.                *)
(***************************************************************************)
InvalidFinalStateError == "InvalidFinalStateError"
InvalidFinalStatesError == "InvalidFinalStatesError"
InvalidInitialStateError == "InvalidInitialStateError"
InvalidInputTokenError == "InvalidInputTokenError"
InvalidStateError == "InvalidStateError"
IllegalTransitionError == "IllegalTransitionError"
TransitionFunctionError == "TransitionFunctionError"
ValueError == "ValueError"
KeyboardInterrupt == "KeyboardInterrupt"

\* isinstance(e, Exception) for the exception kinds of the model.
IsException(kind) == kind # KeyboardInterrupt

\* What the rule can raise.
RuleFaults == {IllegalTransitionError, ValueError, KeyboardInterrupt}

(***************************************************************************)
(* Outcome of a call: a returned value, or a raised exception.             *)
(*   line   the source line of the raise statement that raised it, or      *)
(*          "rule" when it was raised inside the transition rule;          *)
(*   calls  how many times the call invoked the transition rule.           *)
(***************************************************************************)
Return(v, n) == [ok |-> TRUE, val |-> v, exc |-> None, line |-> None, calls |-> n]
Raise(kind, at, n) == [ok |-> FALSE, val |-> None, exc |-> kind, line |-> at, calls |-> n]

\* Outcome of the transition rule itself on one (state, symbol) pair.
RuleReturn(v) == [ret |-> TRUE, val |-> v]
RuleRaise(kind) == [ret |-> FALSE, val |-> kind]
RuleOutcomes == {RuleReturn(v) : v \in States} \cup {RuleRaise(k) : k \in RuleFaults}

Pairs == States \X Symbols

\* turnstile_state_transitions, the table of the tests.
turnstile_state_transitions ==
    [p \in {"locked", "unlocked"} \X {"coin", "push"} |->
        IF p[2] = "coin" THEN "unlocked" ELSE "locked"]

\* turnstile_transition_function: the table, IllegalTransitionError off it.
turnstile_transition_function ==
    [p \in Pairs |->
        IF p \notin DOMAIN turnstile_state_transitions
        THEN RuleRaise(IllegalTransitionError)
        ELSE RuleReturn(turnstile_state_transitions[p])]

(***************************************************************************)
(* The transition rules explored: the turnstile rule, and every rule that  *)
(* differs from it on one pair, where it returns any state or raises any   *)
(* of the faults.                                                          *)
(***************************************************************************)
Rules ==
    {[turnstile_transition_function EXCEPT ![p] = o] : p \in Pairs, o \in RuleOutcomes}

\* The values of an optional frozenset argument over S.
Optional(S) == {Omitted} \cup {Given(T) : T \in SUBSET S}

\* Every combination of constructor arguments.
Arguments ==
    [transition_delta : Rules,
     initial_state_q0 : States,
     all_states_Q : SUBSET States,
     final_states_F : Optional(States),
     alphabet_sigma : Optional(Symbols)]

(***************************************************************************)
(* __init__                                                                *)
(***************************************************************************)

\* DefaultFinalStates with the default forgotten: no final state at all.
DefaultFinalStatesEmpty(final_states_F, all_states_Q) ==
    IF ~final_states_F.given THEN {} ELSE final_states_F.elems

\* Lines 85-87: final_states_F defaults to the all_states_Q object.
DefaultFinalStates(final_states_F, all_states_Q) ==
    IF ~final_states_F.given THEN all_states_Q ELSE final_states_F.elems

\* Lines 80-89: the attributes __init__ assigns.
Attributes(a) ==
    [transition_delta |-> a.transition_delta,
     initial_state_q0 |-> a.initial_state_q0,
     all_states_Q |-> a.all_states_Q,
     final_states_F |-> DefaultFinalStates(a.final_states_F, a.all_states_Q),
     alphabet_sigma |-> a.alphabet_sigma]

\* Lines 92-94: the loop over self.final_states_F raises at an element not in Q.
FinalStatesCheckRaises(self) ==
    \E valid_final_state \in self.final_states_F :
        valid_final_state \notin self.all_states_Q

\* Line 96.
InitialStateCheckRaises(self) == self.initial_state_q0 \notin self.all_states_Q

\* Validate with the two checks in the other order.
ValidateInitialStateFirst(self) ==
    IF InitialStateCheckRaises(self) THEN Raise(InvalidInitialStateError, "97", 0)
    ELSE IF FinalStatesCheckRaises(self) THEN Raise(InvalidFinalStatesError, "94", 0)
    ELSE Return(self, 0)

\* Validate without the check of the initial state.
ValidateFinalStatesOnly(self) ==
    IF FinalStatesCheckRaises(self) THEN Raise(InvalidFinalStatesError, "94", 0)
    ELSE Return(self, 0)

\* Lines 91-97: the validation, in the order of the code.
Validate(self) ==
    IF FinalStatesCheckRaises(self) THEN Raise(InvalidFinalStatesError, "94", 0)
    ELSE IF InitialStateCheckRaises(self) THEN Raise(InvalidInitialStateError, "97", 0)
    ELSE Return(self, 0)

\* LazyFiniteStateMachine(...): the object, or the exception of __init__.
\* The loop of line 92 iterates the object bound to self.final_states_F, which
\* is the all_states_Q object when final_states_F was omitted.
New(a) ==
    [called |-> TRUE,
     outcome |-> Validate(Attributes(a)),
     iterated |-> IF ~a.final_states_F.given THEN "all_states_Q" ELSE "final_states_F"]

(***************************************************************************)
(* step                                                                    *)
(***************************************************************************)

\* The check of line 184 left out.
CurrentStateCheckSkipped(self, current_state) == FALSE

\* Line 184.
CurrentStateCheckRaises(self, current_state) == current_state \notin self.all_states_Q

\* The check of line 186 left out.
AlphabetCheckSkipped(self, input_symbol) == FALSE

\* The check of line 186 with a missing alphabet taken as an empty one.
AlphabetCheckNoneIsEmpty(self, input_symbol) ==
    input_symbol \notin self.alphabet_sigma.elems

\* Line 186.
AlphabetCheckRaises(self, input_symbol) ==
    /\ self.alphabet_sigma.given
    /\ input_symbol \notin self.alphabet_sigma.elems

\* CallRule without the except IllegalTransitionError clause: every Exception
\* of the rule is replaced by TransitionFunctionError.
CallRuleWrapAll(self, current_state, input_symbol) ==
    LET o == self.transition_delta[<<current_state, input_symbol>>] IN
    IF o.ret THEN Return(o.val, 1)
    ELSE IF IsException(o.val) THEN Raise(TransitionFunctionError, "193", 1)
    ELSE Raise(o.val, "rule", 1)

\* CallRule without the try: every exception of the rule leaves step as it is.
CallRuleNoHandler(self, current_state, input_symbol) ==
    LET o == self.transition_delta[<<current_state, input_symbol>>] IN
    IF o.ret THEN Return(o.val, 1)
    ELSE Raise(o.val, "rule", 1)

\* Lines 188-193: the call of the rule inside try / except.
\* IllegalTransitionError is re-raised as it is; any other Exception is replaced
\* by a TransitionFunctionError raised at line 193; an exception that is not an
\* Exception passes through both except clauses.
CallRule(self, current_state, input_symbol) ==
    LET o == self.transition_delta[<<current_state, input_symbol>>] IN
    IF o.ret THEN Return(o.val, 1)
    ELSE IF o.val = IllegalTransitionError THEN Raise(IllegalTransitionError, "rule", 1)
    ELSE IF IsException(o.val) THEN Raise(TransitionFunctionError, "193", 1)
    ELSE Raise(o.val, "rule", 1)

\* The check of line 195 left out.
NewStateCheckSkipped(self, new_state) == FALSE

\* Line 195.
NewStateCheckRaises(self, new_state) == new_state \notin self.all_states_Q

\* step with the alphabet checked before the current state.
stepAlphabetFirst(self, current_state, input_symbol) ==
    IF AlphabetCheckRaises(self, input_symbol) THEN Raise(InvalidInputTokenError, "187", 0)
    ELSE IF CurrentStateCheckRaises(self, current_state) THEN Raise(InvalidStateError, "185", 0)
    ELSE LET r == CallRule(self, current_state, input_symbol) IN
         IF ~r.ok THEN r
         ELSE IF NewStateCheckRaises(self, r.val) THEN Raise(InvalidStateError, "196", 1)
         ELSE Return(r.val, 1)

\* step returning the state it was given instead of the new state.
stepReturnsCurrentState(self, current_state, input_symbol) ==
    IF CurrentStateCheckRaises(self, current_state) THEN Raise(InvalidStateError, "185", 0)
    ELSE IF AlphabetCheckRaises(self, input_symbol) THEN Raise(InvalidInputTokenError, "187", 0)
    ELSE LET r == CallRule(self, current_state, input_symbol) IN
         IF ~r.ok THEN r
         ELSE IF NewStateCheckRaises(self, r.val) THEN Raise(InvalidStateError, "196", 1)
         ELSE Return(current_state, 1)

\* Lines 184-198.
step(self, current_state, input_symbol) ==
    IF CurrentStateCheckRaises(self, current_state) THEN Raise(InvalidStateError, "185", 0)
    ELSE IF AlphabetCheckRaises(self, input_symbol) THEN Raise(InvalidInputTokenError, "187", 0)
    ELSE LET r == CallRule(self, current_state, input_symbol) IN
         IF ~r.ok THEN r
         ELSE IF NewStateCheckRaises(self, r.val) THEN Raise(InvalidStateError, "196", 1)
         ELSE Return(r.val, 1)

(***************************************************************************)
(* process and process_and_check                                           *)
(***************************************************************************)

\* Line 126: the state process starts from.
StartState(self) == self.initial_state_q0

\* The loop body stepping from the initial state instead of the running state.
LoopBodyFromInitialState(self, state, val) == step(self, self.initial_state_q0, val)

\* The loop body testing acceptance after every step, not only after the last.
LoopBodyCheckingFinal(self, state, val) ==
    LET r == step(self, state, val) IN
    IF r.ok /\ r.val \notin self.final_states_F
    THEN Raise(InvalidFinalStateError, "157", r.calls)
    ELSE r

\* Line 128: the body of the loop, state = self.step(state, val).
LoopBody(self, state, val) == step(self, state, val)

\* The check of line 156 made against all_states_Q.
FinalStateCheckAgainstQ(self, final_state) == final_state \notin self.all_states_Q

\* Line 156.
FinalStateCheckRaises(self, final_state) == final_state \notin self.final_states_F

\* Lines 156-158: what process_and_check does with what process returned.
CheckFinal(self, final_state, n) ==
    IF FinalStateCheckRaises(self, final_state) THEN Raise(InvalidFinalStateError, "157", n)
    ELSE Return(final_state, n)

(***************************************************************************)
(* State                                                                   *)
(***************************************************************************)
VARIABLES
    args,       \* the arguments of the constructor call
    machine,    \* the LazyFiniteStateMachine the caller holds, NoMachine if none
    created,    \* NotCalled before the constructor call, then what New(args) gave
    frame,      \* the processing call in progress or last finished
    frame2      \* the same for a second thread calling the same machine

vars == <<args, machine, created, frame, frame2>>

NoMachine == [exists |-> FALSE]
NotCalled == [called |-> FALSE]

\* No outcome yet.
Pending == [ok |-> FALSE, val |-> None, exc |-> None, line |-> None, calls |-> 0]

(***************************************************************************)
(* A call frame.                                                           *)
(*   op             "idle", "step", "process" or "process_and_check"       *)
(*   pc             "idle"; "loop": at the for of line 127; "check": at    *)
(*                  line 156; "done": the call has returned or raised      *)
(*   current_state, input_symbol   the arguments of a step call            *)
(*   inputs_sigma   the argument of process / process_and_check            *)
(*   consumed       how many symbols the for loop has taken from it        *)
(*   state          the local variable state of process                    *)
(*   calls          invocations of the transition rule so far              *)
(*   final_state    in process_and_check, the outcome of self.process      *)
(*   result         the outcome of the call                                *)
(***************************************************************************)
Idle ==
    [op |-> "idle", pc |-> "idle", current_state |-> None, input_symbol |-> None,
     inputs_sigma |-> <<>>, consumed |-> 0, state |-> None, calls |-> 0,
     final_state |-> Pending, result |-> Pending]

\* The input sequences: all sequences of symbols of length at most MaxLen.
Inputs == UNION {[1..n -> Symbols] : n \in 0..MaxLen}

(***************************************************************************)
(* Spec: a constructor call on any combination of arguments, then, on the  *)
(* machine it returned, any number of processing calls.                    *)
(***************************************************************************)
Init ==
    /\ args \in Arguments
    /\ machine = NoMachine
    /\ created = NotCalled
    /\ frame = Idle
    /\ frame2 = Idle

\* machine = LazyFiniteStateMachine(**args); an exception leaves no machine.
Construct ==
    /\ ~created.called
    /\ created' = New(args)
    /\ machine' = IF created'.outcome.ok THEN created'.outcome.val ELSE NoMachine
    /\ UNCHANGED <<args, frame, frame2>>

\* A method can be called once the constructor has returned the machine.
CanCall ==
    /\ created.called
    /\ created.outcome.ok
    /\ frame.pc = "idle"

\* machine.step(current_state, input_symbol), called by the user of the machine.
CallStep(current_state, input_symbol) ==
    /\ CanCall
    /\ frame' = [Idle EXCEPT !.op = "step", !.pc = "done",
                             !.current_state = current_state,
                             !.input_symbol = input_symbol,
                             !.calls = step(machine, current_state, input_symbol).calls,
                             !.result = step(machine, current_state, input_symbol)]
    /\ UNCHANGED <<args, machine, created, frame2>>

\* Line 126 (entered from line 155 for process_and_check): the frame of a call
\* op(inputs_sigma) that is about to run the loop.
Entered(self, op, inputs_sigma) ==
    [Idle EXCEPT !.op = op, !.pc = "loop", !.inputs_sigma = inputs_sigma,
                 !.state = StartState(self)]

\* machine.process(inputs_sigma): line 126.
CallProcess(inputs_sigma) ==
    /\ CanCall
    /\ frame' = Entered(machine, "process", inputs_sigma)
    /\ UNCHANGED <<args, machine, created, frame2>>

\* machine.process_and_check(inputs_sigma): line 155 enters process, line 126.
CallProcessAndCheck(inputs_sigma) ==
    /\ CanCall
    /\ frame' = Entered(machine, "process_and_check", inputs_sigma)
    /\ UNCHANGED <<args, machine, created, frame2>>

\* The loop has a next symbol to take.
HasNext(f) == f.pc = "loop" /\ f.consumed < Len(f.inputs_sigma)

\* The loop going on to the next symbol after a step that raised.
SteppedIgnoringFailure(self, f) ==
    LET val == f.inputs_sigma[f.consumed + 1]
        r == LoopBody(self, f.state, val)
        n == f.calls + r.calls
    IN  IF r.ok
        THEN [f EXCEPT !.consumed = @ + 1, !.state = r.val, !.calls = n]
        ELSE [f EXCEPT !.consumed = @ + 1, !.calls = n]

\* The loop stepping from the running state of the other call in progress, as
\* if the running state were kept in one place shared by all calls.
SteppedSharedState(self, f) ==
    LET other == IF f = frame THEN frame2 ELSE frame
        state == IF other.pc = "loop" THEN other.state ELSE f.state
        val == f.inputs_sigma[f.consumed + 1]
        r == LoopBody(self, state, val)
        n == f.calls + r.calls
    IN  IF r.ok
        THEN [f EXCEPT !.consumed = @ + 1, !.state = r.val, !.calls = n]
        ELSE [f EXCEPT !.consumed = @ + 1, !.calls = n, !.pc = "done",
                       !.final_state =
                           IF f.op = "process_and_check"
                           THEN [r EXCEPT !.calls = n] ELSE Pending,
                       !.result = [r EXCEPT !.calls = n]]

\* Lines 127-128: the frame after the loop took the next symbol and stepped.
\* An exception of step leaves process, and process_and_check too (line 155
\* has no handler).
Stepped(self, f) ==
    LET val == f.inputs_sigma[f.consumed + 1]
        r == LoopBody(self, f.state, val)
        n == f.calls + r.calls
    IN  IF r.ok
        THEN [f EXCEPT !.consumed = @ + 1, !.state = r.val, !.calls = n]
        ELSE [f EXCEPT !.consumed = @ + 1, !.calls = n, !.pc = "done",
                       !.final_state =
                           IF f.op = "process_and_check"
                           THEN [r EXCEPT !.calls = n] ELSE Pending,
                       !.result = [r EXCEPT !.calls = n]]

\* The loop has taken every symbol.
Exhausted(f) == f.pc = "loop" /\ f.consumed = Len(f.inputs_sigma)

\* Line 129: the frame after process returned state; in process_and_check
\* that value is bound to final_state (line 155).
Exited(f) ==
    IF f.op = "process"
    THEN [f EXCEPT !.pc = "done", !.result = Return(f.state, f.calls)]
    ELSE [f EXCEPT !.pc = "check", !.final_state = Return(f.state, f.calls)]

\* Lines 156-158: the frame after the check of the final state.
Checked(self, f) ==
    [f EXCEPT !.pc = "done",
              !.result = CheckFinal(self, f.final_state.val, f.calls)]

\* The loop keeping its running state in an attribute of the machine.
LoopStepStoringState ==
    /\ HasNext(frame)
    /\ frame' = Stepped(machine, frame)
    /\ machine' = [machine EXCEPT !.initial_state_q0 = frame'.state]
    /\ UNCHANGED <<args, created, frame2>>

\* Lines 127-128 in the call of the first thread.
LoopStep ==
    /\ HasNext(frame)
    /\ frame' = Stepped(machine, frame)
    /\ UNCHANGED <<args, machine, created, frame2>>

\* Line 129 in the call of the first thread.
LoopExit ==
    /\ Exhausted(frame)
    /\ frame' = Exited(frame)
    /\ UNCHANGED <<args, machine, created, frame2>>

\* Lines 156-158.
Check ==
    /\ frame.pc = "check"
    /\ frame' = Checked(machine, frame)
    /\ UNCHANGED <<args, machine, created, frame2>>

\* The caller takes the result or the exception, and is free to call again.
Finish ==
    /\ frame.pc = "done"
    /\ frame' = Idle
    /\ UNCHANGED <<args, machine, created, frame2>>

Next ==
    \/ Construct
    \/ \E current_state \in States, input_symbol \in Symbols :
            CallStep(current_state, input_symbol)
    \/ \E inputs_sigma \in Inputs : CallProcess(inputs_sigma)
    \/ \E inputs_sigma \in Inputs : CallProcessAndCheck(inputs_sigma)
    \/ LoopStep
    \/ LoopExit
    \/ Check
    \/ Finish

Spec == Init /\ [][Next]_vars

(***************************************************************************)
(* SpecFair: the operations of Spec on the machines over the two turnstile *)
(* states, with a call that has begun running on: process and              *)
(* process_and_check are synchronous code without waiting, so the thread   *)
(* that runs the loop takes its next iteration, leaves the loop when the   *)
(* inputs are exhausted, and makes the check of line 156.                  *)
(***************************************************************************)

\* Any rule, q0, F and alphabet, with Q the two turnstile states.
FairArguments == {a \in Arguments : a.all_states_Q = {"locked", "unlocked"}}

InitFair ==
    /\ args \in FairArguments
    /\ machine = NoMachine
    /\ created = NotCalled
    /\ frame = Idle
    /\ frame2 = Idle

SpecFair ==
    /\ InitFair
    /\ [][Next]_vars
    /\ WF_vars(LoopStep)
    /\ WF_vars(LoopExit)
    /\ WF_vars(Check)

(***************************************************************************)
(* SpecConcurrent: two threads call process and process_and_check on the   *)
(* same constructed machine; their loop iterations interleave in any       *)
(* order.  The methods share nothing but the machine, which they only      *)
(* read, so one iteration (lines 127-128) is one step of a thread.         *)
(***************************************************************************)

\* The inputs of the interleaved calls.
ConcurrentInputs == UNION {[1..n -> Symbols] : n \in 0..MaxConcurrentLen}

\* The machines called from two threads: the two turnstile states, starting
\* locked, with any rule, F omitted or {"locked"}, the alphabet omitted or
\* {"coin"}.
ConcurrentArguments ==
    {a \in Arguments :
        /\ a.all_states_Q = {"locked", "unlocked"}
        /\ a.initial_state_q0 = "locked"
        /\ a.final_states_F \in {Omitted, Given({"locked"})}
        /\ a.alphabet_sigma \in {Omitted, Given({"coin"})}}

\* The state after a construction that returned a machine.
InitConcurrent ==
    /\ args \in ConcurrentArguments
    /\ created = New(args)
    /\ created.outcome.ok
    /\ machine = created.outcome.val
    /\ frame = Idle
    /\ frame2 = Idle

\* The second thread calls machine.process(inputs_sigma).
CallProcess2(inputs_sigma) ==
    /\ frame2.pc = "idle"
    /\ frame2' = Entered(machine, "process", inputs_sigma)
    /\ UNCHANGED <<args, machine, created, frame>>

\* The second thread calls machine.process_and_check(inputs_sigma).
CallProcessAndCheck2(inputs_sigma) ==
    /\ frame2.pc = "idle"
    /\ frame2' = Entered(machine, "process_and_check", inputs_sigma)
    /\ UNCHANGED <<args, machine, created, frame>>

\* Lines 127-128 in the call of the second thread.
LoopStep2 ==
    /\ HasNext(frame2)
    /\ frame2' = Stepped(machine, frame2)
    /\ UNCHANGED <<args, machine, created, frame>>

\* Line 129 in the call of the second thread.
LoopExit2 ==
    /\ Exhausted(frame2)
    /\ frame2' = Exited(frame2)
    /\ UNCHANGED <<args, machine, created, frame>>

\* Lines 156-158 in the call of the second thread.
Check2 ==
    /\ frame2.pc = "check"
    /\ frame2' = Checked(machine, frame2)
    /\ UNCHANGED <<args, machine, created, frame>>

\* The second thread takes the result or the exception.
Finish2 ==
    /\ frame2.pc = "done"
    /\ frame2' = Idle
    /\ UNCHANGED <<args, machine, created, frame>>

NextConcurrent ==
    \/ \E inputs_sigma \in ConcurrentInputs : CallProcess(inputs_sigma)
    \/ \E inputs_sigma \in ConcurrentInputs : CallProcessAndCheck(inputs_sigma)
    \/ LoopStep
    \/ LoopExit
    \/ Check
    \/ Finish
    \/ \E inputs_sigma \in ConcurrentInputs : CallProcess2(inputs_sigma)
    \/ \E inputs_sigma \in ConcurrentInputs : CallProcessAndCheck2(inputs_sigma)
    \/ LoopStep2
    \/ LoopExit2
    \/ Check2
    \/ Finish2

SpecConcurrent == InitConcurrent /\ [][NextConcurrent]_vars

(***************************************************************************)
(* SpecTurnstile: the turnstile of tests/test_turnstile.py.                *)
(***************************************************************************)

\* test_turnstile_simple, lines 25-31: the arguments of the turnstile.
TurnstileArguments ==
    [transition_delta |-> turnstile_transition_function,
     initial_state_q0 |-> "locked",
     all_states_Q |-> {"locked", "unlocked"},
     final_states_F |-> Given({"locked", "unlocked"}),
     alphabet_sigma |-> Given({"coin", "push"})]

\* test_turnstile_simple, line 32.
test_inputs == <<"coin", "push", "coin", "push", "push", "push", "push">>

InitTurnstile ==
    /\ args = TurnstileArguments
    /\ machine = NoMachine
    /\ created = NotCalled
    /\ frame = Idle
    /\ frame2 = Idle

NextTurnstile ==
    \/ Construct
    \/ \E current_state \in States, input_symbol \in Symbols :
            CallStep(current_state, input_symbol)
    \/ \E inputs_sigma \in Inputs \cup {test_inputs} : CallProcess(inputs_sigma)
    \/ \E inputs_sigma \in Inputs \cup {test_inputs} : CallProcessAndCheck(inputs_sigma)
    \/ LoopStep
    \/ LoopExit
    \/ Check
    \/ Finish

SpecTurnstile == InitTurnstile /\ [][NextTurnstile]_vars

(***************************************************************************)
(* SpecModulus: the modulus-three machine of examples/FSM_modulus_three.py *)
(* and tests/test_modulus.py, on the binary digits of 0 .. MaxNumber.      *)
(***************************************************************************)

\* test_mod_three_explicit, line 76: range(1000) ends at 999.
MaxNumber == 999

\* STATE_TRANSITIONS, lines 9-16 of FSM_modulus_three.py.
STATE_TRANSITIONS ==
    [p \in {"S0", "S1", "S2"} \X {"0", "1"} |->
        CASE p = <<"S0", "0">> -> "S0"
          [] p = <<"S0", "1">> -> "S1"
          [] p = <<"S1", "0">> -> "S2"
          [] p = <<"S1", "1">> -> "S0"
          [] p = <<"S2", "0">> -> "S1"
          [] p = <<"S2", "1">> -> "S2"]

\* Line 21: lambda state, input_symbol: STATE_TRANSITIONS[(state, input_symbol)].
ModulusRule == [p \in DOMAIN STATE_TRANSITIONS |-> RuleReturn(STATE_TRANSITIONS[p])]

\* Lines 18-25: ALL_STATES and the arguments of FSM.
ALL_STATES == {"S0", "S1", "S2"}
ModulusArguments ==
    [transition_delta |-> ModulusRule,
     initial_state_q0 |-> "S0",
     all_states_Q |-> ALL_STATES,
     final_states_F |-> Given(ALL_STATES),
     alphabet_sigma |-> Omitted]

\* format(num, "b"): the binary digits of num, most significant first, "0" for 0.
RECURSIVE Binary(_)
Binary(num) ==
    LET digit == IF num % 2 = 0 THEN "0" ELSE "1" IN
    IF num < 2 THEN <<digit>> ELSE Append(Binary(num \div 2), digit)

\* The digits of every number of the test.
BinaryOf == [num \in 0..MaxNumber |-> Binary(num)]

InitModulus ==
    /\ args = ModulusArguments
    /\ machine = NoMachine
    /\ created = NotCalled
    /\ frame = Idle
    /\ frame2 = Idle

NextModulus ==
    \/ Construct
    \/ \E num \in 0..MaxNumber : CallProcessAndCheck(BinaryOf[num])
    \/ LoopStep
    \/ LoopExit
    \/ Check
    \/ Finish

SpecModulus == InitModulus /\ [][NextModulus]_vars

(***************************************************************************)
(* SpecPrefix: one caller, on a constructed machine, calls process on a    *)
(* sequence xs and, when that call has returned or raised, calls process   *)
(* on xs followed by a sequence ys.  The first call runs in frame2 and its *)
(* outcome stays there; the second call runs in frame.                     *)
(***************************************************************************)

\* machine.process(xs + ys), called after machine.process(xs) is over: line 126.
CallProcessExtended(ys) ==
    /\ frame2.op = "process"
    /\ frame2.pc = "done"
    /\ frame.pc = "idle"
    /\ frame' = Entered(machine, "process", frame2.inputs_sigma \o ys)
    /\ UNCHANGED <<args, machine, created, frame2>>

NextPrefix ==
    \/ \E xs \in Inputs : CallProcess2(xs)
    \/ LoopStep2
    \/ LoopExit2
    \/ \E ys \in Inputs : CallProcessExtended(ys)
    \/ LoopStep
    \/ LoopExit

SpecPrefix == InitConcurrent /\ [][NextPrefix]_vars

(***************************************************************************)
(* Properties                                                              *)
(***************************************************************************)

\* The configuration the caller supplied: Q, F (Q when omitted), the alphabet.
SuppliedQ == args.all_states_Q
SuppliedF ==
    IF args.final_states_F.given THEN args.final_states_F.elems ELSE args.all_states_Q
InAlphabet(x) == ~args.alphabet_sigma.given \/ x \in args.alphabet_sigma.elems

ConstructorReturned == created.called
StepDone == frame.op = "step" /\ frame.pc = "done"
ProcessDone == frame.op = "process" /\ frame.pc = "done"
ProcessAndCheckDone == frame.op = "process_and_check" /\ frame.pc = "done"

\* Two outcomes agree: the same returned state, or the same kind of exception.
SameOutcome(a, b) == a.ok = b.ok /\ a.val = b.val /\ a.exc = b.exc

\* The left fold of step over inputs from q0: fold(f, q0, xs + [x]) is
\* f(fold(f, q0, xs), x), and an exception of a step is the fold's exception.
RECURSIVE FoldLeft(_, _, _)
FoldLeft(self, q0, inputs) ==
    IF inputs = <<>> THEN Return(q0, 0)
    ELSE LET acc == FoldLeft(self, q0, SubSeq(inputs, 1, Len(inputs) - 1)) IN
         IF ~acc.ok THEN acc
         ELSE LET r == step(self, acc.val, inputs[Len(inputs)]) IN
              [r EXCEPT !.calls = acc.calls + r.calls]

\* C1: a finished process(inputs) has the outcome of the left fold of step over
\* inputs from the configured q0: the same state, or the same kind of exception
\* as the first failing step; on the empty sequence it returns q0.
C1_ProcessIsFoldOfStep ==
    ProcessDone =>
        /\ SameOutcome(frame.result,
                       FoldLeft(machine, args.initial_state_q0, frame.inputs_sigma))
        /\ frame.inputs_sigma = <<>> =>
              frame.result.ok /\ frame.result.val = args.initial_state_q0

\* C1 witness: process failed at the second of three symbols.
C1_Witness ==
    /\ ProcessDone
    /\ Len(frame.inputs_sigma) = 3
    /\ frame.consumed = 2
    /\ ~frame.result.ok

\* C2: process_and_check(inputs) returns exactly when process(inputs) returns a
\* state of F, and then that state; a state of Q outside F gives
\* InvalidFinalStateError; an exception of process is the exception of
\* process_and_check, and is never InvalidFinalStateError.
C2_ProcessAndCheck ==
    ProcessAndCheckDone =>
        LET p == FoldLeft(machine, args.initial_state_q0, frame.inputs_sigma)
            r == frame.result
        IN  /\ r.ok <=> (p.ok /\ p.val \in SuppliedF)
            /\ r.ok => r.val = p.val
            /\ (p.ok /\ p.val \in SuppliedQ /\ p.val \notin SuppliedF) =>
                  (~r.ok /\ r.exc = InvalidFinalStateError)
            /\ ~p.ok => (~r.ok /\ r.exc = p.exc /\ r.exc # InvalidFinalStateError)

\* C2 witness: process_and_check raised InvalidFinalStateError after two symbols.
C2_Witness ==
    /\ ProcessAndCheckDone
    /\ Len(frame.inputs_sigma) = 2
    /\ frame.result.exc = InvalidFinalStateError

\* Some element of the F the caller gave is not in Q.
SuppliedFInvalid ==
    /\ args.final_states_F.given
    /\ \E f \in args.final_states_F.elems : f \notin args.all_states_Q

\* C3: a constructor call with an element of F absent from Q raises
\* InvalidFinalStatesError and gives no machine, also when q0 is absent from Q.
C3_InvalidFinalStates ==
    (ConstructorReturned /\ SuppliedFInvalid) =>
        /\ ~created.outcome.ok
        /\ created.outcome.exc = InvalidFinalStatesError
        /\ machine = NoMachine

\* C3 witness: the constructor was called with F not within Q and q0 not in Q.
C3_Witness ==
    /\ ConstructorReturned
    /\ SuppliedFInvalid
    /\ args.initial_state_q0 \notin args.all_states_Q

\* C4: a constructor call with a valid F (omitted, or within Q) and q0 not in Q
\* raises InvalidInitialStateError and gives no machine.
C4_InvalidInitialState ==
    (ConstructorReturned /\ ~SuppliedFInvalid
        /\ args.initial_state_q0 \notin args.all_states_Q) =>
        /\ ~created.outcome.ok
        /\ created.outcome.exc = InvalidInitialStateError
        /\ machine = NoMachine

\* C4 witness: the constructor was called with F given and within a non-empty
\* Q, and q0 not in Q.
C4_Witness ==
    /\ ConstructorReturned
    /\ args.final_states_F.given
    /\ ~SuppliedFInvalid
    /\ args.final_states_F.elems # {}
    /\ args.initial_state_q0 \notin args.all_states_Q

\* C5: a constructor call with F within Q (or omitted) and q0 in Q returns a
\* machine whose five attributes are the supplied rule, q0, Q, F and alphabet,
\* F being Q when it was omitted.
C5_ValidConstruction ==
    (ConstructorReturned /\ ~SuppliedFInvalid
        /\ args.initial_state_q0 \in args.all_states_Q) =>
        /\ created.outcome.ok
        /\ machine # NoMachine
        /\ machine.transition_delta = args.transition_delta
        /\ machine.initial_state_q0 = args.initial_state_q0
        /\ machine.all_states_Q = args.all_states_Q
        /\ machine.final_states_F = SuppliedF
        /\ machine.alphabet_sigma = args.alphabet_sigma

\* C5 witness: a machine constructed with F omitted and two states in Q.
C5_Witness ==
    /\ ConstructorReturned
    /\ machine # NoMachine
    /\ ~args.final_states_F.given
    /\ Cardinality(args.all_states_Q) = 2

\* What the supplied rule does on the arguments of the step call.
RuleOnStepArguments ==
    args.transition_delta[<<frame.current_state, frame.input_symbol>>]

\* C6: step with a current_state not in Q raises InvalidStateError, for every
\* input symbol, in the alphabet or not, and does not invoke the rule.
C6_StepInvalidCurrentState ==
    (StepDone /\ frame.current_state \notin SuppliedQ) =>
        /\ ~frame.result.ok
        /\ frame.result.exc = InvalidStateError
        /\ frame.result.calls = 0

\* C6 witness: step was called with a state outside Q and a symbol outside the
\* declared alphabet.
C6_Witness ==
    /\ StepDone
    /\ frame.current_state \notin SuppliedQ
    /\ ~InAlphabet(frame.input_symbol)

\* C7: with an alphabet declared, step on a state of Q and a symbol outside the
\* alphabet raises InvalidInputTokenError and does not invoke the rule, whatever
\* the rule does on that pair.
C7_StepInvalidInputToken ==
    (StepDone /\ frame.current_state \in SuppliedQ
        /\ ~InAlphabet(frame.input_symbol)) =>
        /\ ~frame.result.ok
        /\ frame.result.exc = InvalidInputTokenError
        /\ frame.result.calls = 0

\* C7 witness: step on a state of Q and a symbol outside the alphabet, for which
\* the rule would raise a fault.
C7_Witness ==
    /\ StepDone
    /\ frame.current_state \in SuppliedQ
    /\ ~InAlphabet(frame.input_symbol)
    /\ RuleOnStepArguments = RuleRaise(ValueError)

\* C8: step reports the first violated check in the order current state in Q,
\* symbol in the alphabet, rule invocation, new state in Q; with several
\* violated at once the earliest decides the exception.
C8_StepCheckOrder ==
    StepDone =>
        LET r == frame.result
            o == RuleOnStepArguments
            badState == frame.current_state \notin SuppliedQ
            badSymbol == ~InAlphabet(frame.input_symbol)
            ruleRaises == ~o.ret
            badNewState == o.ret /\ o.val \notin SuppliedQ
        IN  /\ badState => (r.exc = InvalidStateError /\ r.line = "185")
            /\ (~badState /\ badSymbol) =>
                  (r.exc = InvalidInputTokenError /\ r.line = "187")
            /\ (~badState /\ ~badSymbol /\ ruleRaises) =>
                  (~r.ok /\ r.calls = 1 /\ r.line \in {"rule", "193"})
            /\ (~badState /\ ~badSymbol /\ ~ruleRaises /\ badNewState) =>
                  (r.exc = InvalidStateError /\ r.line = "196")
            /\ (~badState /\ ~badSymbol /\ ~ruleRaises /\ ~badNewState) =>
                  (r.ok /\ r.val = o.val)

\* C8 witness: step with the current state outside Q, the symbol outside the
\* alphabet and a rule that would return a state outside Q, all at once.
C8_Witness ==
    /\ StepDone
    /\ frame.current_state \notin SuppliedQ
    /\ ~InAlphabet(frame.input_symbol)
    /\ RuleOnStepArguments.ret
    /\ RuleOnStepArguments.val \notin SuppliedQ

\* The step call passed the checks of the current state and of the alphabet.
StepReachedRule ==
    /\ StepDone
    /\ frame.current_state \in SuppliedQ
    /\ InAlphabet(frame.input_symbol)

\* C9: when the rule raises IllegalTransitionError on a pair that passed the
\* state and alphabet checks, step raises IllegalTransitionError, the rule's own
\* exception, and not TransitionFunctionError.
C9_IllegalTransitionPropagates ==
    (StepReachedRule /\ RuleOnStepArguments = RuleRaise(IllegalTransitionError)) =>
        /\ ~frame.result.ok
        /\ frame.result.exc = IllegalTransitionError
        /\ frame.result.line = "rule"

\* C9 witness: step reached a rule that raises IllegalTransitionError, with an
\* alphabet declared.
C9_Witness ==
    /\ StepReachedRule
    /\ args.alphabet_sigma.given
    /\ RuleOnStepArguments = RuleRaise(IllegalTransitionError)

C11_StepReturnsStateOfQ ==
    StepDone =>
        /\ (StepReachedRule /\ RuleOnStepArguments.ret
              /\ RuleOnStepArguments.val \notin SuppliedQ) =>
              /\ ~frame.result.ok
              /\ frame.result.exc = InvalidStateError
              /\ frame.result.line = "196"
        /\ frame.result.ok => frame.result.val \in SuppliedQ

\* C11 witness: step reached a rule that returns a state outside Q.
C11_Witness ==
    /\ StepReachedRule
    /\ RuleOnStepArguments.ret
    /\ RuleOnStepArguments.val \notin SuppliedQ

\* C14: with F omitted, process_and_check never raises InvalidFinalStateError
\* and has the outcome of process on the same inputs.
C14_OmittedFAcceptsAll ==
    (ProcessAndCheckDone /\ ~args.final_states_F.given) =>
        /\ frame.result.exc # InvalidFinalStateError
        /\ SameOutcome(frame.result,
                       FoldLeft(machine, args.initial_state_q0, frame.inputs_sigma))

\* C14 witness: process_and_check returned a state other than q0 on a machine
\* constructed without F.
C14_Witness ==
    /\ ProcessAndCheckDone
    /\ ~args.final_states_F.given
    /\ frame.result.ok
    /\ frame.result.val # args.initial_state_q0

\* C15: with no alphabet declared, step never raises InvalidInputTokenError, and
\* on a current state of Q it invokes the rule, once, for every symbol.
C15_NoAlphabetAcceptsAll ==
    (StepDone /\ ~args.alphabet_sigma.given) =>
        /\ frame.result.exc # InvalidInputTokenError
        /\ frame.current_state \in SuppliedQ => frame.result.calls = 1

\* C15 witness: step on a state of Q of a machine without alphabet.
C15_Witness ==
    /\ StepDone
    /\ ~args.alphabet_sigma.given
    /\ frame.current_state \in SuppliedQ

\* The attributes __init__ assigns (lines 80-89).
AttributeNames ==
    {"transition_delta", "initial_state_q0", "all_states_Q", "final_states_F",
     "alphabet_sigma"}

\* C12: whatever calls of step, process and process_and_check were made, and
\* whether they returned or raised, the machine is the one the constructor
\* returned: the same rule, q0, Q, F and alphabet, and no other attribute.
C12_ConfigurationUnchanged ==
    (created.called /\ created.outcome.ok) =>
        /\ machine = created.outcome.val
        /\ DOMAIN machine = AttributeNames

\* C12 witness: a process_and_check call that raised after a successful step.
C12_Witness ==
    /\ ProcessAndCheckDone
    /\ ~frame.result.ok
    /\ frame.consumed >= 2
    /\ frame.calls >= 1

\* The state process has reached after the first k symbols of the inputs.
StateAfter(k) ==
    FoldLeft(machine, args.initial_state_q0, SubSeq(frame.inputs_sigma, 1, k))

\* C19: process_and_check raises InvalidFinalStateError only at line 157, after
\* every input symbol was stepped successfully, and on the state reached after
\* the last symbol; with that state in F it returns, whatever states outside F
\* were passed on the way.
C19_AcceptanceOnLastStateOnly ==
    ProcessAndCheckDone =>
        LET n == Len(frame.inputs_sigma) IN
        /\ frame.result.exc = InvalidFinalStateError =>
              /\ frame.result.line = "157"
              /\ frame.consumed = n
              /\ \A k \in 0..n : StateAfter(k).ok
              /\ StateAfter(n).val \notin SuppliedF
        /\ (StateAfter(n).ok /\ StateAfter(n).val \in SuppliedF) =>
              (frame.result.ok /\ frame.result.val = StateAfter(n).val)

\* C19 witness: process_and_check returned although a state reached before the
\* last symbol is in Q and not in F.
C19_Witness ==
    /\ ProcessAndCheckDone
    /\ frame.result.ok
    /\ \E k \in 0..(Len(frame.inputs_sigma) - 1) :
          /\ StateAfter(k).val \in SuppliedQ
          /\ StateAfter(k).val \notin SuppliedF

\* The outcome of the call of frame f when it runs alone: the fold of step over
\* its inputs for process (C1), and for process_and_check the check of line 156
\* on what the fold returned (C2).
OutcomeAlone(f) ==
    LET p == FoldLeft(machine, args.initial_state_q0, f.inputs_sigma) IN
    IF f.op = "process" \/ ~p.ok THEN p
    ELSE IF p.val \in SuppliedF THEN p
    ELSE Raise(InvalidFinalStateError, "157", p.calls)

\* C13: with the iterations of two process / process_and_check calls on the
\* same machine interleaved in any order, each call ends with the state or the
\* exception it has when it runs alone.
C13_InterleavedCallsIndependent ==
    /\ frame.pc = "done" => SameOutcome(frame.result, OutcomeAlone(frame))
    /\ frame2.pc = "done" => SameOutcome(frame2.result, OutcomeAlone(frame2))

\* C13 witness: the first call returned after two symbols while the second
\* call, begun before, is in its loop at a state other than the one returned.
C13_Witness ==
    /\ frame.pc = "done"
    /\ frame.result.ok
    /\ Len(frame.inputs_sigma) = 2
    /\ frame2.pc = "loop"
    /\ frame2.consumed = 1
    /\ frame2.state # frame.result.val

\* The turnstile table as the claim gives it.
ClaimedTurnstile(state, symbol) ==
    CASE state = "locked" /\ symbol = "coin" -> "unlocked"
      [] state = "locked" /\ symbol = "push" -> "locked"
      [] state = "unlocked" /\ symbol = "coin" -> "unlocked"
      [] state = "unlocked" /\ symbol = "push" -> "locked"

\* C16: on the turnstile machine step returns the table's state for each of the
\* four pairs, and process_and_check on coin, push, coin, push, push, push, push
\* returns locked.
C16_Turnstile ==
    /\ (StepDone /\ frame.current_state \in {"locked", "unlocked"}) =>
          /\ frame.result.ok
          /\ frame.result.val = ClaimedTurnstile(frame.current_state, frame.input_symbol)
    /\ (ProcessAndCheckDone /\ frame.inputs_sigma = test_inputs) =>
          /\ frame.result.ok
          /\ frame.result.val = "locked"

\* C16 witness: process_and_check finished on the seven symbols of the test.
C16_Witness ==
    /\ ProcessAndCheckDone
    /\ frame.inputs_sigma = test_inputs
    /\ frame.consumed = 7

\* STATE_TO_MOD read backwards: the state that stands for a remainder.
StateOfRemainder(k) == CASE k = 0 -> "S0" [] k = 1 -> "S1" [] k = 2 -> "S2"

\* C17: on the modulus-three machine, for every n of 0 .. 999, process_and_check
\* on the binary digits of n returns the state Sk with k = n mod 3.
C17_ModulusThree ==
    ProcessAndCheckDone =>
        \A num \in 0..MaxNumber :
            frame.inputs_sigma = BinaryOf[num] =>
                /\ frame.result.ok
                /\ frame.result.val = StateOfRemainder(num % 3)

\* C17 witness: process_and_check finished on the ten digits of 999.
C17_Witness ==
    /\ ProcessAndCheckDone
    /\ frame.inputs_sigma = <<"1", "1", "1", "1", "1", "0", "0", "1", "1", "1">>
    /\ frame.inputs_sigma = BinaryOf[999]
    /\ frame.result.ok

\* Some element of the supplied Q was enumerated by the constructor.
ConstructorEnumeratedQ == created.called /\ created.iterated = "all_states_Q"

\* C18: the constructor iterates F and nothing else; no construction, also one
\* that omits F, enumerates Q.
C18_QNeverEnumerated == created.called => created.iterated = "final_states_F"

\* A process call is running its loop.
ProcessRunning == frame.op = "process" /\ frame.pc = "loop"

\* C20: a process call, once begun, ends with a state or an exception; it takes
\* the symbols in order and never more of them than there are; while no step
\* has failed the rule was invoked once for each symbol taken; on return that
\* is once for each symbol of the inputs; after a step that raised, the call
\* is over at that symbol, with the rule invoked at most once for it.
C20_ProcessTerminates ==
    /\ [](ProcessRunning =>
            /\ frame.consumed <= Len(frame.inputs_sigma)
            /\ frame.calls = frame.consumed
            /\ \A k \in 0..frame.consumed : StateAfter(k).ok)
    /\ [](ProcessDone =>
            /\ frame.result.calls = frame.calls
            /\ frame.result.ok =>
                  /\ frame.consumed = Len(frame.inputs_sigma)
                  /\ frame.calls = Len(frame.inputs_sigma)
            /\ ~frame.result.ok =>
                  /\ frame.consumed \in 1..Len(frame.inputs_sigma)
                  /\ frame.calls \in {frame.consumed - 1, frame.consumed}
                  /\ \A k \in 0..(frame.consumed - 1) : StateAfter(k).ok
                  /\ ~StateAfter(frame.consumed).ok)
    /\ (ProcessRunning ~> ProcessDone)

\* C20 witness: process ended at the second of three symbols, with the rule
\* invoked for the first symbol only.
C20_Witness ==
    /\ ProcessDone
    /\ Len(frame.inputs_sigma) = 3
    /\ frame.consumed = 2
    /\ frame.calls = 1

\* A process or process_and_check call is in progress or has just ended.
InProcess == frame.op \in {"process", "process_and_check"}

\* The symbol the last iteration of the loop took.
LastSymbol == frame.inputs_sigma[frame.consumed]

\* What the rule gives on the running state and the symbol last taken.
RuleOnLastSymbol == machine.transition_delta[<<frame.state, LastSymbol>>]

\* C21: on a machine whose construction succeeded, the running state of process
\* is in Q at every iteration of the loop, every state process or
\* process_and_check returns is in Q, no exception of the call comes from the
\* check of the current state (line 185), and an InvalidStateError of the call
\* is raised at line 196, on a state outside Q that the rule returned.
C21_RunningStateInQ ==
    InProcess =>
        /\ frame.state \in SuppliedQ
        /\ frame.pc = "check" => frame.final_state.val \in SuppliedQ
        /\ (frame.pc = "done" /\ frame.result.ok) => frame.result.val \in SuppliedQ
        /\ (frame.pc = "done" /\ ~frame.result.ok) =>
              /\ frame.result.line # "185"
              /\ frame.result.exc = InvalidStateError =>
                    /\ frame.result.line = "196"
                    /\ RuleOnLastSymbol.ret
                    /\ RuleOnLastSymbol.val \notin SuppliedQ

\* C21 witness: process raised InvalidStateError at its third symbol, after
\* two steps that moved the running state inside Q.
C21_Witness ==
    /\ ProcessDone
    /\ frame.result.exc = InvalidStateError
    /\ frame.consumed = 3
    /\ frame.calls = 3
    /\ frame.state # args.initial_state_q0

\* The sequence xs of the first call is a prefix of the inputs of the second.
IsPrefix(xs, inputs) ==
    /\ Len(xs) <= Len(inputs)
    /\ SubSeq(inputs, 1, Len(xs)) = xs

\* What follows the first Len(xs) symbols of the inputs.
Remainder(xs, inputs) == SubSeq(inputs, Len(xs) + 1, Len(inputs))

\* process(xs) is over in frame2 and process(xs + ys) is over in frame.
BothProcessDone ==
    /\ frame2.op = "process"
    /\ frame2.pc = "done"
    /\ ProcessDone
    /\ IsPrefix(frame2.inputs_sigma, frame.inputs_sigma)

\* C22: when process(xs) returned s, process(xs + ys) has the outcome of the
\* left fold of step over ys from s: the same state, or the same kind of
\* exception; when process(xs) raised, process(xs + ys) raises the same kind of
\* exception.
C22_PrefixComposition ==
    BothProcessDone =>
        LET ys == Remainder(frame2.inputs_sigma, frame.inputs_sigma) IN
        IF frame2.result.ok
        THEN SameOutcome(frame.result, FoldLeft(machine, frame2.result.val, ys))
        ELSE /\ ~frame.result.ok
             /\ frame.result.exc = frame2.result.exc

\* C22 witness: process(xs) returned, after two symbols, a state other than
\* q0, and process(xs + ys) raised at the second of the three symbols of ys.
C22_Witness ==
    /\ BothProcessDone
    /\ frame2.result.ok
    /\ Len(frame2.inputs_sigma) = 2
    /\ frame2.result.val # args.initial_state_q0
    /\ Len(frame.inputs_sigma) = 5
    /\ frame.consumed = 4
    /\ ~frame.result.ok

\* The other case of C22: process(xs) raised and ys is not empty.
C22_FailedPrefix ==
    /\ BothProcessDone
    /\ ~frame2.result.ok
    /\ Len(frame.inputs_sigma) > Len(frame2.inputs_sigma)

=============================================================================
